---- MODULE Spec2Model ----
(***************************************************************************)
(* Certificate expiration monitoring: the concurrent endpoint-checking     *)
(* core (GetDaysRemaining and the handler registered in main).             *)
(*                                                                         *)
(* The repository holds several generations of the program.  The variable  *)
(* `build` selects the one a behaviour runs:                               *)
(*   "sync"  src/main.go:1-200     GetDaysRemaining(ctx, endpoint) (int,   *)
(*           error), called synchronously by each worker, which also       *)
(*           publishes the metric; format check, one dial;                 *)
(*   "ctx"   src/unnamed/part_002  GetDaysRemaining(ctx, endpoint) Result, *)
(*           probe goroutine + select on ctx.Done(), format check, one     *)
(*           dial, 10 s per-endpoint deadline;                             *)
(*   "retry" src/README.md:157-389 the same with a retry loop and          *)
(*           ExponentialBackoff, no format check, 20 s deadline.           *)
(* Strings are sequences of one-character strings, so that strings.Split,  *)
(* strings.Contains and concatenation are computed, not assumed.           *)
(***************************************************************************)
EXTENDS Integers, Sequences, FiniteSets, TLC

\* ------------------------------------------------------------ bounds
MaxEndpoints == 2
MaxHours == 1300
MaxFailedMetrics == 60
\* the longest the caller of GetDaysRemaining takes, in milliseconds, from
\* starting the probe goroutine to evaluating its select
MaxSelectDelayMs == 1000

\* ------------------------------------------------- program constants
maxRetries == 3
JitterRange == 100
BackoffUnit == 100
\* A faulty worker deadline of 40 seconds, against which C36 is tried.
deadlineMs_long == 40 * 1000
\* `net.Dialer{Timeout: 10 * time.Second}` of the retrying probe, and its
\* worker's `context.WithTimeout(..., 20*time.Second)`, in milliseconds
dialTimeoutMs == 10000
deadlineMs == 20000

\* ---------------------------------------------------------- strings
Colon == ":"
Comma == ","
DefaultPort == <<":", "4", "4", "3">>

Contains(s, c) == \E i \in 1..Len(s) : s[i] = c

RECURSIVE Split(_, _)
Split(s, sep) ==
    IF ~Contains(s, sep)
    THEN <<s>>
    ELSE LET k == CHOOSE i \in 1..Len(s) :
                     s[i] = sep /\ \A j \in 1..(i - 1) : s[j] # sep
         IN  <<SubSeq(s, 1, k - 1)>> \o Split(SubSeq(s, k + 1, Len(s)), sep)

RECURSIVE Join(_, _)
Join(list, sep) ==
    IF Len(list) = 0 THEN <<>>
    ELSE IF Len(list) = 1 THEN list[1]
    ELSE list[1] \o <<sep>> \o Join(Tail(list), sep)

\* The entries a configuration may list: without a port, host:port, and
\* an entry with two colons.
EntryStrings == { <<"g">>, <<"h", ":", "1">>, <<"h", ":", "1", ":", "2">> }

ListsUpTo(S, n) == UNION { [1..k -> S] : k \in 0..n }

\* The values of the ENDPOINTS environment variable that are tried.
EndpointsValues == { Join(l, Comma) : l \in ListsUpTo(EntryStrings, MaxEndpoints) }
NamespaceValues == { "", "certificate_expiration_monitoring" }
MetricNameValues == { "", "CertificateExpiryDays" }

\* A faulty handler that passes every entry on as it is, against which C37
\* is tried.
DefaultedEndpoint_none(endpoint) == endpoint

\* A faulty defaulting that appends the port to every endpoint, against
\* which C24 is tried.
DefaultedEndpoint_always(endpoint) == endpoint \o DefaultPort

\* main: `if !strings.Contains(endpoint, ":") { endpoint = endpoint + ":443" }`
DefaultedEndpoint(endpoint) ==
    IF ~Contains(endpoint, Colon) THEN endpoint \o DefaultPort ELSE endpoint

\* A faulty format check, `len(parts) > 2`, against which C10 is tried.
InvalidFormat_moreThanTwo(endpoint) == Len(Split(endpoint, Colon)) > 2

\* GetDaysRemaining: `parts := strings.Split(endpoint, ":"); len(parts) != 2`
InvalidFormat(endpoint) == Len(Split(endpoint, Colon)) # 2

\* ---------------------------------------------------------- results
NoErr == [kind |-> "nil", cause |-> 0]
ErrInvalidFormat == [kind |-> "InvalidFormat", cause |-> 0]
ErrConnectionFailed(e) == [kind |-> "ConnectionFailed", cause |-> e]
ErrNoCertificate == [kind |-> "NoCertificate", cause |-> 0]
ErrTimeout == [kind |-> "Timeout", cause |-> 0]
ErrPublishFailed == [kind |-> "PublishFailed", cause |-> 0]

Result(endpoint, days, e) == [Endpoint |-> endpoint, DaysRemaining |-> days, Err |-> e]
NoResult == [Endpoint |-> <<>>, DaysRemaining |-> 0, Err |-> [kind |-> "unset", cause |-> 0]]

\* Peer certificate chains a handshake may present: each certificate is
\* the whole number of hours from now to its notAfter; certs[0] is the leaf.
CertChains == { <<>>, <<1200, -30>> }

\* `int(time.Until(cert.NotAfter).Hours() / 24)`: the conversion to int
\* truncates toward zero.
DaysRemainingOf(hours) ==
    IF hours >= 0 THEN hours \div 24 ELSE -((-hours) \div 24)

\* A faulty shift, `1 << attempt`, against which C8 is tried.
ShiftLeft2_one(attempt) == 2 ^ attempt

\* `base := 2 << attempt`
ShiftLeft2(attempt) == 2 * (2 ^ attempt)

\* A faulty backoff that leaves out the scaling by 100, against which C9
\* is tried.
ExponentialBackoff_unscaled(attempt, jitter) == 2 * (2 ^ attempt) + jitter

\* ExponentialBackoff, in milliseconds, for the value `jitter` that
\* rand.Intn(100) returned.
ExponentialBackoff(attempt, jitter) == ShiftLeft2(attempt) * BackoffUnit + jitter

\* The jitter values the system specification tries; the backoff
\* specification tries all of 0..JitterRange-1.
JitterSamples == { 0, JitterRange - 1 }

\* A faulty loop condition, `attempt <= maxRetries`, against which C29 is
\* tried.
LoopContinues_inclusive(a) == a <= maxRetries

\* `for attempt := 0; attempt < maxRetries; attempt++`
LoopContinues(a) == a < maxRetries

\* ---------------------------------------------------- publishMetricData
\* What client.PostMetricData answers: an error, or a response whose
\* FailedMetricsCount is a pointer, nil or to a count.
NilCount == [isNil |-> TRUE, v |-> 0]
CountOf(n) == [isNil |-> FALSE, v |-> n]
PublishResponses ==
    { [err |-> TRUE, FailedMetricsCount |-> NilCount] }
    \cup { [err |-> FALSE, FailedMetricsCount |-> c] :
             c \in {NilCount} \cup { CountOf(n) : n \in 0..MaxFailedMetrics } }

\* The answers the handler's specification tries.
PublishSamples == { resp \in PublishResponses : resp.FailedMetricsCount.v <= 1 }

\* "failed to post metric data: %v"
ErrPostFailed == [kind |-> "PostFailed", cause |-> 0]
\* "encountered %d errors while posting metric data"
ErrMetricsFailed(n) == [kind |-> "MetricsFailed", cause |-> n]

\* A faulty publishMetricData that does not look at FailedMetricsCount,
\* against which C20 is tried.
publishMetricData_ignoreCount(resp) == IF resp.err THEN ErrPostFailed ELSE NoErr

\* The error publishMetricData returns for the answer resp.
publishMetricData(resp) ==
    IF resp.err
    THEN ErrPostFailed
    ELSE IF ~resp.FailedMetricsCount.isNil /\ resp.FailedMetricsCount.v > 0
         THEN ErrMetricsFailed(resp.FailedMetricsCount.v)
         ELSE NoErr

\* ------------------------------------------------------------- state
VARIABLES
    build,        \* which generation of the program runs
    env,          \* ENDPOINTS, NAMESPACE, METRIC_NAME
    mpc,          \* the handler's position
    endpointList, \* strings.Split(endpoints, ",")
    idx,          \* the spawn loop's position in endpointList
    results,      \* the results channel's buffer
    resultsCap,   \* its capacity
    resultsClosed,
    wg,           \* the WaitGroup counter
    cpc,          \* the goroutine that waits and closes results
    wpc,          \* each worker's position
    wep,          \* each worker's endpoint argument
    ctx,          \* each worker's timeout context
    resultChan,   \* each probe's result channel (capacity 1)
    ret,          \* what GetDaysRemaining returned
    gpc,          \* each probe goroutine's position
    attempt,      \* the retry loop's counter
    err,          \* the probe's err variable: 0 is nil, k the k-th dial's error
    conn,         \* the probe's connection
    peer,         \* the certificate chain of the handshake
    sleepMs,      \* the backoff being slept
    obs,          \* history of each probe, kept when GetDaysRemaining is
                  \* called on its own (mpc = "probe"): the dials made, where
                  \* probe and caller stood when the deadline fired, and the
                  \* chain of the handshake
    collected,    \* the Results the collection loop received
    published,    \* the data points handed to publishMetricData
    out,          \* the lines written to the handler's output
    pubErrs,      \* the endpoints of the collection loop's "Failed to
                  \* publish metric" log lines
    parent,       \* the handler's own context
    bk,           \* the backoff specification's state
    dr,           \* the days-remaining specification's state
    pm,           \* the publishMetricData specification's state
    tm            \* the timed specification's state: the probe's clock

mainVars == <<build, env, mpc, endpointList, idx, parent>>
chanVars == <<results, resultsCap, resultsClosed, wg, cpc>>
callVars == <<wpc, wep, ctx, resultChan, ret>>
probeVars == <<gpc, attempt, err, conn, peer, sleepMs>>
sinkVars == <<collected, published, out, pubErrs>>
harnessVars == <<bk, dr, pm, tm>>
vars == <<mainVars, chanVars, callVars, probeVars, sinkVars, obs, harnessVars>>

Workers == 1..MaxEndpoints
ObsInit == [dials |-> 0, fired |-> <<>>, certs |-> <<>>, scheduled |-> 0, slept |-> 0]
BkInit == [calls |-> 0, jitter |-> 0, cur |-> 0, prevJitter |-> 0, prev |-> 0]

DrInit == [hours |-> 0, days |-> 0, done |-> FALSE]
PmInit == [resp |-> [err |-> FALSE, FailedMetricsCount |-> NilCount],
           ret |-> NoErr,
           done |-> FALSE]

\* The specifications of single functions, when not in use.
TmInit == [now |-> 0, attempt |-> 0, phase |-> "idle", resultAt |-> -1,
           selectAt |-> 0, ret |-> "none"]

IdleHarness ==
    /\ bk = BkInit
    /\ dr = DrInit
    /\ pm = PmInit
    /\ tm = TmInit

\* Every per-worker variable before its worker exists.
IdleWorkers ==
    /\ wpc = [i \in Workers |-> "none"]
    /\ wep = [i \in Workers |-> <<>>]
    /\ ctx = [i \in Workers |-> "none"]
    /\ resultChan = [i \in Workers |-> <<>>]
    /\ ret = [i \in Workers |-> NoResult]
    /\ gpc = [i \in Workers |-> "none"]
    /\ attempt = [i \in Workers |-> 0]
    /\ err = [i \in Workers |-> 0]
    /\ conn = [i \in Workers |-> "none"]
    /\ peer = [i \in Workers |-> <<>>]
    /\ sleepMs = [i \in Workers |-> 0]
    /\ obs = [i \in Workers |-> ObsInit]

Builds == {"sync", "ctx", "retry"}

Init ==
    /\ build \in Builds
    /\ env \in [ENDPOINTS : EndpointsValues,
                NAMESPACE : NamespaceValues,
                METRIC_NAME : MetricNameValues]
    /\ mpc = "config"
    /\ endpointList = <<>>
    /\ idx = 1
    /\ results = <<>>
    /\ resultsCap = 0
    /\ resultsClosed = FALSE
    /\ wg = 0
    /\ cpc = "none"
    /\ IdleWorkers
    /\ collected = <<>>
    /\ published = <<>>
    /\ out = <<>>
    /\ pubErrs = <<>>
    /\ parent = "active"
    /\ IdleHarness

\* ------------------------------------------------------- the handler
\* A faulty check that looks at the endpoint list only, against which C17
\* is tried.
ConfigMissing_endpointsOnly == env.ENDPOINTS = <<>>

\* `if endpoints == "" || namespace == "" || metricName == ""`
ConfigMissing ==
    env.ENDPOINTS = <<>> \/ env.NAMESPACE = "" \/ env.METRIC_NAME = ""

\* log.Fatal: the process exits before anything else runs.
ConfigFatal ==
    /\ mpc = "config"
    /\ ConfigMissing
    /\ mpc' = "fatal"
    /\ UNCHANGED <<build, env, parent, endpointList, idx, chanVars, callVars, probeVars,
                   sinkVars, obs, harnessVars>>

ConfigOk ==
    /\ mpc = "config"
    /\ ~ConfigMissing
    /\ mpc' = "client"
    /\ UNCHANGED <<build, env, parent, endpointList, idx, chanVars, callVars, probeVars,
                   sinkVars, obs, harnessVars>>

\* createMonitoringClient, then getCompartmentID(ctx): either may fail, and
\* the handler then logs the error and returns (log.Printf or LogError, and
\* `return`: the process is not ended).  getCompartmentID makes its
\* request under the handler's context, and fails if that is cancelled.
ClientsOk ==
    /\ mpc = "client"
    /\ parent = "active"
    /\ mpc' = "split"
    /\ UNCHANGED <<build, env, parent, endpointList, idx, chanVars, callVars, probeVars,
                   sinkVars, obs, harnessVars>>

ClientsFail ==
    /\ mpc = "client"
    /\ mpc' \in {"clientFailed", "compartmentFailed"}
    /\ UNCHANGED <<build, env, parent, endpointList, idx, chanVars, callVars, probeVars,
                   sinkVars, obs, harnessVars>>

\* A faulty handler that makes the results channel with room for one
\* Result only, against which C32 is tried.
SplitEndpoints_capacityOne ==
    /\ mpc = "split"
    /\ endpointList' =
         IF build = "sync"
         THEN [k \in 1..Len(Split(env.ENDPOINTS, Comma)) |->
                  DefaultedEndpoint(Split(env.ENDPOINTS, Comma)[k])]
         ELSE Split(env.ENDPOINTS, Comma)
    /\ resultsCap' = 1
    /\ idx' = 1
    /\ mpc' = "loop"
    /\ UNCHANGED <<build, env, parent, results, resultsClosed, wg, cpc, callVars,
                   probeVars, sinkVars, obs, harnessVars>>

\* `endpointList := strings.Split(endpoints, ",")`
\* `results := make(chan Result, len(endpointList))`
\* build "sync" defaults the ports in place, in a loop of its own, before
\* any worker is started.
SplitEndpoints ==
    /\ mpc = "split"
    /\ endpointList' =
         IF build = "sync"
         THEN [k \in 1..Len(Split(env.ENDPOINTS, Comma)) |->
                  DefaultedEndpoint(Split(env.ENDPOINTS, Comma)[k])]
         ELSE Split(env.ENDPOINTS, Comma)
    /\ resultsCap' = Len(Split(env.ENDPOINTS, Comma))
    /\ idx' = 1
    /\ mpc' = "loop"
    /\ UNCHANGED <<build, env, parent, results, resultsClosed, wg, cpc, callVars,
                   probeVars, sinkVars, obs, harnessVars>>

\* One iteration of `for _, endpoint := range endpointList`: the port is
\* defaulted, wg.Add(1), and the worker goroutine is started.
Spawn ==
    /\ mpc = "loop"
    /\ idx <= Len(endpointList)
    /\ wep' = [wep EXCEPT ![idx] = DefaultedEndpoint(endpointList[idx])]
    /\ wg' = wg + 1
    /\ wpc' = [wpc EXCEPT ![idx] = "start"]
    /\ idx' = idx + 1
    /\ UNCHANGED <<build, env, parent, mpc, endpointList, results, resultsCap,
                   resultsClosed, cpc, ctx, resultChan, ret, probeVars,
                   sinkVars, obs, harnessVars>>

\* A faulty closer goroutine that closes the channel without wg.Wait(),
\* against which C33 is tried.
StartCloser_noWait ==
    /\ mpc = "loop"
    /\ idx > Len(endpointList)
    /\ cpc' = "close"
    /\ mpc' = "collect"
    /\ UNCHANGED <<build, env, parent, endpointList, idx, results, resultsCap,
                   resultsClosed, wg, callVars, probeVars, sinkVars, obs, harnessVars>>

\* After the loop: `go func() { wg.Wait(); close(results) }()`, and the
\* handler goes on to `for result := range results`.
StartCloser ==
    /\ mpc = "loop"
    /\ idx > Len(endpointList)
    /\ cpc' = "wait"
    /\ mpc' = "collect"
    /\ UNCHANGED <<build, env, parent, endpointList, idx, results, resultsCap,
                   resultsClosed, wg, callVars, probeVars, sinkVars, obs, harnessVars>>

\* A faulty closer that does not wait for the counter to reach zero,
\* against which C2 is tried.
WaitReturns_noWait ==
    /\ cpc = "wait"
    /\ cpc' = "close"
    /\ UNCHANGED <<mainVars, results, resultsCap, resultsClosed, wg, callVars,
                   probeVars, sinkVars, obs, harnessVars>>

\* wg.Wait() returns when the counter is zero.
WaitReturns ==
    /\ cpc = "wait"
    /\ wg = 0
    /\ cpc' = "close"
    /\ UNCHANGED <<mainVars, results, resultsCap, resultsClosed, wg, callVars,
                   probeVars, sinkVars, obs, harnessVars>>

CloseResults ==
    /\ cpc = "close"
    /\ resultsClosed' = TRUE
    /\ cpc' = "done"
    /\ UNCHANGED <<mainVars, results, resultsCap, wg, callVars, probeVars,
                   sinkVars, obs, harnessVars>>

DataPoint(r) == [resourceId |-> r.Endpoint, value |-> r.DaysRemaining]

\* A faulty loop that publishes every Result, against which C18 is tried.
PublishedBy_always(r) == <<DataPoint(r)>>

\* What one iteration of the collection loop hands to publishMetricData.
PublishedBy(r) == IF r.Err = NoErr THEN <<DataPoint(r)>> ELSE <<>>

\* The line written to the handler's output for a Result: its endpoint
\* with the error or with the days remaining.
OutLine(r) ==
    IF r.Err # NoErr
    THEN [Endpoint |-> r.Endpoint, Err |-> r.Err]
    ELSE [Endpoint |-> r.Endpoint, DaysRemaining |-> r.DaysRemaining]

\* A faulty collection loop that starts only once every worker is done and
\* the channel is closed, against which C15 is tried.
Collect_afterJoin ==
    /\ mpc = "collect"
    /\ Len(results) > 0
    /\ resultsClosed
    /\ collected' = Append(collected, Head(results))
    /\ published' = IF build = "sync" THEN published
                    ELSE published \o PublishedBy(Head(results))
    /\ \E resp \in PublishSamples :
         pubErrs' = IF /\ build # "sync"
                       /\ PublishedBy(Head(results)) # <<>>
                       /\ publishMetricData(resp) # NoErr
                    THEN Append(pubErrs, Head(results).Endpoint)
                    ELSE pubErrs
    /\ out' = IF build = "retry" THEN out ELSE Append(out, OutLine(Head(results)))
    /\ results' = Tail(results)
    /\ UNCHANGED <<mainVars, resultsCap, resultsClosed, wg, cpc, callVars,
                   probeVars, obs, harnessVars>>

\* A faulty collection loop that gives up at the first publish error,
\* against which C19 is tried.
Collect_abortOnPublishError ==
    /\ mpc = "collect"
    /\ Len(results) > 0
    /\ collected' = Append(collected, Head(results))
    /\ published' = IF build = "sync" THEN published
                    ELSE published \o PublishedBy(Head(results))
    /\ \E resp \in PublishSamples :
         IF /\ build # "sync"
            /\ PublishedBy(Head(results)) # <<>>
            /\ publishMetricData(resp) # NoErr
         THEN pubErrs' = Append(pubErrs, Head(results).Endpoint) /\ mpc' = "aborted"
         ELSE pubErrs' = pubErrs /\ mpc' = mpc
    /\ out' = IF build = "retry" THEN out ELSE Append(out, OutLine(Head(results)))
    /\ results' = Tail(results)
    /\ UNCHANGED <<build, env, endpointList, idx, parent, resultsCap, resultsClosed,
                   wg, cpc, callVars, probeVars, obs, harnessVars>>

\* One iteration of `for result := range results`.  builds "ctx" and
\* "retry": a failed Result is logged, a successful one is logged and
\* published (a publish error is logged, pubErrs, and the loop goes on).  builds
\* "sync" and "ctx" write a line to the output; build "retry" only logs.
Collect ==
    /\ mpc = "collect"
    /\ Len(results) > 0
    /\ collected' = Append(collected, Head(results))
    /\ published' = IF build = "sync" THEN published
                    ELSE published \o PublishedBy(Head(results))
    /\ \E resp \in PublishSamples :
         pubErrs' = IF /\ build # "sync"
                       /\ PublishedBy(Head(results)) # <<>>
                       /\ publishMetricData(resp) # NoErr
                    THEN Append(pubErrs, Head(results).Endpoint)
                    ELSE pubErrs
    /\ out' = IF build = "retry" THEN out ELSE Append(out, OutLine(Head(results)))
    /\ results' = Tail(results)
    /\ UNCHANGED <<mainVars, resultsCap, resultsClosed, wg, cpc, callVars,
                   probeVars, obs, harnessVars>>

\* The range loop ends when the channel is closed and drained.
CollectEnd ==
    /\ mpc = "collect"
    /\ Len(results) = 0
    /\ resultsClosed
    /\ mpc' = "returned"
    /\ UNCHANGED <<build, env, parent, endpointList, idx, chanVars, callVars, probeVars,
                   sinkVars, obs, harnessVars>>

HandlerNext ==
    \/ ConfigFatal
    \/ ConfigOk
    \/ ClientsOk
    \/ ClientsFail
    \/ SplitEndpoints
    \/ Spawn
    \/ StartCloser
    \/ WaitReturns
    \/ CloseResults
    \/ Collect
    \/ CollectEnd

\* ---------------------------------------------- GetDaysRemaining: caller
\* The history is kept only while GetDaysRemaining is exercised on its own.
Observing == mpc = "probe"
Observe(i, field, value) ==
    obs' = IF Observing THEN [obs EXCEPT ![i][field] = value] ELSE obs

TimeoutResult(endpoint) == Result(endpoint, 0, ErrTimeout)

\* builds "ctx" and "retry" run the probe in a goroutine of its own and
\* wait for it in `select { case <-ctx.Done(): ... case res := <-resultChan: }`.
HasSelect == build \in {"ctx", "retry"}

\* A faulty worker that calls GetDaysRemaining with context.Background(),
\* a context without a deadline, against which C35 is tried.
CallProbe_noDeadline(i) ==
    /\ wpc[i] = "start"
    /\ ctx' = [ctx EXCEPT ![i] = "background"]
    /\ gpc' = [gpc EXCEPT ![i] = IF build = "retry" THEN "dial" ELSE "check"]
    /\ wpc' = [wpc EXCEPT ![i] = IF HasSelect THEN "select" ELSE "call"]
    /\ UNCHANGED <<mainVars, chanVars, wep, resultChan, ret, attempt, err, conn,
                   peer, sleepMs, sinkVars, obs, harnessVars>>

\* The worker's `context.WithTimeout(...)`, then GetDaysRemaining up to its
\* select: `resultChan := make(chan Result, 1)` and `go func() {...}()`.
\* In build "sync" the worker itself runs the probe (gpc is its position
\* inside GetDaysRemaining) and the context is not looked at.
CallProbe(i) ==
    /\ wpc[i] = "start"
    /\ ctx' = [ctx EXCEPT ![i] = "active"]
    /\ gpc' = [gpc EXCEPT ![i] = IF build = "retry" THEN "dial" ELSE "check"]
    /\ wpc' = [wpc EXCEPT ![i] = IF HasSelect THEN "select" ELSE "call"]
    /\ UNCHANGED <<mainVars, chanVars, wep, resultChan, ret, attempt, err, conn,
                   peer, sleepMs, sinkVars, obs, harnessVars>>

\* A faulty deadline that does not wake a caller waiting in the select,
\* against which C3 is tried.
DeadlineFire_noWake(i) ==
    /\ ctx[i] = "active"
    /\ ctx' = [ctx EXCEPT ![i] = "expired"]
    /\ Observe(i, "fired", <<gpc[i], wpc[i]>>)
    /\ UNCHANGED <<mainVars, chanVars, wep, ret, wpc, resultChan, probeVars,
                   sinkVars, harnessVars>>

\* The context's timer fires and closes ctx.Done().  A caller waiting in
\* the select is woken with the ctx.Done() case.
DeadlineFire(i) ==
    /\ ctx[i] = "active"
    /\ ctx' = [ctx EXCEPT ![i] = "expired"]
    /\ Observe(i, "fired", <<gpc[i], wpc[i]>>)
    /\ IF wpc[i] = "parked"
       THEN /\ ret' = [ret EXCEPT ![i] = TimeoutResult(wep[i])]
            /\ wpc' = [wpc EXCEPT ![i] = "return"]
       ELSE UNCHANGED <<ret, wpc>>
    /\ UNCHANGED <<mainVars, chanVars, wep, resultChan, probeVars, sinkVars, harnessVars>>

\* The caller reaches the select and ctx.Done() is ready.  When a Result is
\* ready as well, Go chooses between the two cases at random: this action
\* and SelectResult are then both enabled.
SelectTimeout(i) ==
    /\ wpc[i] = "select"
    /\ ctx[i] = "expired"
    /\ ret' = [ret EXCEPT ![i] = TimeoutResult(wep[i])]
    /\ wpc' = [wpc EXCEPT ![i] = "return"]
    /\ UNCHANGED <<mainVars, chanVars, wep, ctx, resultChan, probeVars, sinkVars,
                   obs, harnessVars>>

\* The caller reaches the select and resultChan holds a Result.
SelectResult(i) ==
    /\ wpc[i] = "select"
    /\ Len(resultChan[i]) > 0
    /\ ret' = [ret EXCEPT ![i] = Head(resultChan[i])]
    /\ resultChan' = [resultChan EXCEPT ![i] = Tail(@)]
    /\ wpc' = [wpc EXCEPT ![i] = "return"]
    /\ UNCHANGED <<mainVars, chanVars, wep, ctx, probeVars, sinkVars, obs, harnessVars>>

\* The caller reaches the select and no case is ready: it waits.
SelectPark(i) ==
    /\ wpc[i] = "select"
    /\ ctx[i] # "expired"
    /\ Len(resultChan[i]) = 0
    /\ wpc' = [wpc EXCEPT ![i] = "parked"]
    /\ UNCHANGED <<mainVars, chanVars, wep, ctx, resultChan, ret, probeVars,
                   sinkVars, obs, harnessVars>>

\* A faulty GetDaysRemaining whose resultChan is unbuffered,
\* `make(chan Result)`: the send needs a caller waiting in the select.
\* C34 is tried against it.
Send_unbuffered(i, r) ==
    /\ wpc[i] = "parked"
    /\ ret' = [ret EXCEPT ![i] = r]
    /\ wpc' = [wpc EXCEPT ![i] = "return"]
    /\ UNCHANGED resultChan

\* A faulty send that leaves the Result in the buffer without waking a
\* caller waiting in the select, against which C30 is tried.
Send_noHandoff(i, r) ==
    /\ Len(resultChan[i]) < 1
    /\ resultChan' = [resultChan EXCEPT ![i] = Append(@, r)]
    /\ UNCHANGED <<ret, wpc>>

\* `resultChan <- r` in the probe goroutine: handed to a caller waiting in
\* the select, buffered otherwise (the channel has capacity 1).
Send(i, r) ==
    /\ Len(resultChan[i]) < 1
    /\ IF wpc[i] = "parked"
       THEN /\ ret' = [ret EXCEPT ![i] = r]
            /\ wpc' = [wpc EXCEPT ![i] = "return"]
            /\ UNCHANGED resultChan
       ELSE /\ resultChan' = [resultChan EXCEPT ![i] = Append(@, r)]
            /\ UNCHANGED <<ret, wpc>>

\* The probe reports r.  builds "ctx" and "retry" send it on resultChan.
\* build "sync" returns it: at once where no Close is deferred, and else
\* (`deferred`) after the deferred conn.Close() has run.
Deliver(i, r, deferred) ==
    IF build = "sync"
    THEN /\ ret' = [ret EXCEPT ![i] = r]
         /\ wpc' = [wpc EXCEPT ![i] = IF deferred THEN @ ELSE "return"]
         /\ UNCHANGED resultChan
    ELSE Send(i, r)

\* ----------------------------------- GetDaysRemaining: probe goroutine
\* The goroutine's locals (attempt, err, the handshake's state) are reset
\* when they go out of scope.

\* builds "sync" and "ctx": the format check that precedes the dial.
ProbeCheck(i) ==
    /\ gpc[i] = "check"
    /\ IF InvalidFormat(wep[i])
       THEN /\ Deliver(i, Result(wep[i], 0, ErrInvalidFormat), FALSE)
            /\ gpc' = [gpc EXCEPT ![i] = "done"]
       ELSE /\ gpc' = [gpc EXCEPT ![i] = "dial"]
            /\ UNCHANGED <<ret, wpc, resultChan>>
    /\ UNCHANGED <<mainVars, chanVars, wep, ctx, attempt, err, conn, peer,
                   sleepMs, sinkVars, obs, harnessVars>>

\* A faulty retry loop that keeps the first attempt's error instead of the
\* latest one, against which C25 is tried.
DialFail_keepsFirstError(i) ==
    /\ gpc[i] = "dial"
    /\ IF build = "retry"
       THEN /\ \E j \in JitterSamples :
                 /\ sleepMs' = [sleepMs EXCEPT ![i] = ExponentialBackoff(attempt[i], j)]
                 /\ obs' = IF Observing
                           THEN [obs EXCEPT ![i].dials = @ + 1,
                                            ![i].scheduled =
                                                @ + ExponentialBackoff(attempt[i], j)]
                           ELSE obs
            /\ err' = [err EXCEPT ![i] = IF @ = 0 THEN attempt[i] + 1 ELSE @]
            /\ gpc' = [gpc EXCEPT ![i] = "sleep"]
            /\ UNCHANGED <<ret, wpc, resultChan>>
       ELSE /\ Deliver(i, Result(wep[i], 0, ErrConnectionFailed(1)), FALSE)
            /\ Observe(i, "dials", obs[i].dials + 1)
            /\ gpc' = [gpc EXCEPT ![i] = "done"]
            /\ UNCHANGED <<sleepMs, err>>
    /\ UNCHANGED <<mainVars, chanVars, wep, ctx, attempt, conn, peer, sinkVars, harnessVars>>

\* tls.DialWithDialer returns an error.  builds "sync" and "ctx" report
\* it; build "retry" logs it and sleeps ExponentialBackoff(attempt).
DialFail(i) ==
    /\ gpc[i] = "dial"
    /\ IF build = "retry"
       THEN /\ \E j \in JitterSamples :
                 /\ sleepMs' = [sleepMs EXCEPT ![i] = ExponentialBackoff(attempt[i], j)]
                 /\ obs' = IF Observing
                           THEN [obs EXCEPT ![i].dials = @ + 1,
                                            ![i].scheduled =
                                                @ + ExponentialBackoff(attempt[i], j)]
                           ELSE obs
            /\ err' = [err EXCEPT ![i] = attempt[i] + 1]
            /\ gpc' = [gpc EXCEPT ![i] = "sleep"]
            /\ UNCHANGED <<ret, wpc, resultChan>>
       ELSE /\ Deliver(i, Result(wep[i], 0, ErrConnectionFailed(1)), FALSE)
            /\ Observe(i, "dials", obs[i].dials + 1)
            /\ gpc' = [gpc EXCEPT ![i] = "done"]
            /\ UNCHANGED <<sleepMs, err>>
    /\ UNCHANGED <<mainVars, chanVars, wep, ctx, attempt, conn, peer, sinkVars, harnessVars>>

\* tls.DialWithDialer returns a connection whose handshake presented
\* `chain`; the retry loop is left (`break`), `defer conn.Close()` is
\* registered.
DialOk(i) ==
    /\ gpc[i] = "dial"
    /\ \E chain \in CertChains :
         /\ peer' = [peer EXCEPT ![i] = chain]
         /\ obs' = IF Observing
                   THEN [obs EXCEPT ![i].dials = @ + 1, ![i].certs = <<chain>>]
                   ELSE obs
    /\ err' = [err EXCEPT ![i] = 0]
    /\ attempt' = [attempt EXCEPT ![i] = 0]
    /\ conn' = [conn EXCEPT ![i] = "open"]
    /\ gpc' = [gpc EXCEPT ![i] = "cert"]
    /\ UNCHANGED <<mainVars, chanVars, callVars, sleepMs, sinkVars, harnessVars>>

\* A faulty wait that passes the milliseconds to time.Sleep as
\* microseconds, against which C26 is tried.
SleepDone_microseconds(i) ==
    /\ gpc[i] = "sleep"
    /\ sleepMs' = [sleepMs EXCEPT ![i] = 0]
    /\ Observe(i, "slept", obs[i].slept + sleepMs[i] \div 1000)
    /\ IF LoopContinues(attempt[i] + 1)
       THEN /\ attempt' = [attempt EXCEPT ![i] = @ + 1]
            /\ gpc' = [gpc EXCEPT ![i] = "dial"]
            /\ UNCHANGED <<ret, wpc, resultChan, err>>
       ELSE /\ Deliver(i, Result(wep[i], 0, ErrConnectionFailed(err[i])), FALSE)
            /\ attempt' = [attempt EXCEPT ![i] = 0]
            /\ err' = [err EXCEPT ![i] = 0]
            /\ gpc' = [gpc EXCEPT ![i] = "done"]
    /\ UNCHANGED <<mainVars, chanVars, wep, ctx, conn, peer, sinkVars, harnessVars>>

\* build "retry": time.Sleep returns when the whole duration has passed
\* (the goroutine's clock, obs.slept, has advanced by it), `attempt++`, and
\* the loop either dials again or ends with err set, which is reported.
SleepDone(i) ==
    /\ gpc[i] = "sleep"
    /\ sleepMs' = [sleepMs EXCEPT ![i] = 0]
    /\ Observe(i, "slept", obs[i].slept + sleepMs[i])
    /\ IF LoopContinues(attempt[i] + 1)
       THEN /\ attempt' = [attempt EXCEPT ![i] = @ + 1]
            /\ gpc' = [gpc EXCEPT ![i] = "dial"]
            /\ UNCHANGED <<ret, wpc, resultChan, err>>
       ELSE /\ Deliver(i, Result(wep[i], 0, ErrConnectionFailed(err[i])), FALSE)
            /\ attempt' = [attempt EXCEPT ![i] = 0]
            /\ err' = [err EXCEPT ![i] = 0]
            /\ gpc' = [gpc EXCEPT ![i] = "done"]
    /\ UNCHANGED <<mainVars, chanVars, wep, ctx, conn, peer, sinkVars, harnessVars>>

\* A faulty choice of certificate, the last of the chain, against which C7
\* is tried.
Leaf_last(certs) == certs[Len(certs)]

\* `cert := certs[0]`
Leaf(certs) == certs[1]

\* A faulty probe that marks the missing measurement with -1 days beside
\* the error, against which C23 is tried.
HandshakeResult_daysOnError(endpoint, certs) ==
    IF Len(certs) = 0
    THEN Result(endpoint, -1, ErrNoCertificate)
    ELSE Result(endpoint, DaysRemainingOf(Leaf(certs)), NoErr)

\* What the probe reports for a completed handshake: `len(certs) == 0`,
\* else the days remaining of the leaf.
HandshakeResult(endpoint, certs) ==
    IF Len(certs) = 0
    THEN Result(endpoint, 0, ErrNoCertificate)
    ELSE Result(endpoint, DaysRemainingOf(Leaf(certs)), NoErr)

\* A faulty probe that treats an empty chain like a failed dial and
\* connects again, against which C13 is tried.
ReadCertificate_retryEmpty(i) ==
    /\ gpc[i] = "cert"
    /\ IF Len(peer[i]) = 0
       THEN /\ gpc' = [gpc EXCEPT ![i] = "dial"]
            /\ conn' = [conn EXCEPT ![i] = "closed"]
            /\ UNCHANGED <<ret, wpc, resultChan>>
       ELSE /\ Deliver(i, HandshakeResult(wep[i], peer[i]), TRUE)
            /\ gpc' = [gpc EXCEPT ![i] = "defer"]
            /\ UNCHANGED conn
    /\ UNCHANGED <<mainVars, chanVars, wep, ctx, attempt, err, peer, sleepMs,
                   sinkVars, obs, harnessVars>>

\* `certs := conn.ConnectionState().PeerCertificates`, the check of its
\* length, and the Result that follows.
ReadCertificate(i) ==
    /\ gpc[i] = "cert"
    /\ Deliver(i, HandshakeResult(wep[i], peer[i]), TRUE)
    /\ gpc' = [gpc EXCEPT ![i] = "defer"]
    /\ UNCHANGED <<mainVars, chanVars, wep, ctx, attempt, err, conn, peer,
                   sleepMs, sinkVars, obs, harnessVars>>

\* The deferred conn.Close() runs as the probe returns; in build "sync"
\* GetDaysRemaining then returns to the worker.
CloseConn(i) ==
    /\ gpc[i] = "defer"
    /\ conn' = [conn EXCEPT ![i] = "closed"]
    /\ peer' = [peer EXCEPT ![i] = <<>>]
    /\ gpc' = [gpc EXCEPT ![i] = "done"]
    /\ wpc' = [wpc EXCEPT ![i] = IF build = "sync" THEN "return" ELSE @]
    /\ UNCHANGED <<mainVars, chanVars, wep, ctx, resultChan, ret, attempt, err,
                   sleepMs, sinkVars, obs, harnessVars>>

ProbeNext(i) ==
    \/ CallProbe(i)
    \/ DeadlineFire(i)
    \/ SelectTimeout(i)
    \/ SelectResult(i)
    \/ SelectPark(i)
    \/ ProbeCheck(i)
    \/ DialFail(i)
    \/ DialOk(i)
    \/ SleepDone(i)
    \/ ReadCertificate(i)
    \/ CloseConn(i)

\* ------------------------------------------------------------ workers
\* build "sync": the worker publishes a successful measurement itself;
\* if publishMetricData fails, the line it sends says so.
WorkerPublish(i) ==
    /\ build = "sync"
    /\ wpc[i] = "return"
    /\ ~Observing
    /\ ret[i].Err = NoErr
    /\ published' = Append(published, DataPoint(ret[i]))
    /\ \E resp \in PublishSamples :
         ret' = [ret EXCEPT ![i].Err = IF publishMetricData(resp) = NoErr
                                       THEN NoErr ELSE ErrPublishFailed]
    /\ wpc' = [wpc EXCEPT ![i] = "publish"]
    /\ UNCHANGED <<mainVars, chanVars, wep, ctx, resultChan, probeVars, collected,
                   out, pubErrs, obs, harnessVars>>

\* The worker has the Result (build "sync": the line) to send.
ReadyToSend(i) ==
    \/ wpc[i] = "publish"
    \/ wpc[i] = "return" /\ (build # "sync" \/ ret[i].Err # NoErr)

\* A faulty worker that returns without sending when the probe timed out,
\* against which C1 is tried.
WorkerSend_dropTimeout(i) ==
    /\ ReadyToSend(i)
    /\ ~Observing
    /\ ~resultsClosed
    /\ Len(results) < resultsCap
    /\ results' = IF ret[i].Err = ErrTimeout THEN results ELSE Append(results, ret[i])
    /\ wpc' = [wpc EXCEPT ![i] = "sent"]
    /\ UNCHANGED <<mainVars, resultsCap, resultsClosed, wg, cpc, wep, ctx,
                   resultChan, ret, probeVars, sinkVars, obs, harnessVars>>

\* A faulty worker that, after a Timeout, sends the Result its probe left
\* in resultChan in place of the Timeout, against which C31 is tried.
WorkerSend_lateResult(i) ==
    /\ ReadyToSend(i)
    /\ ~Observing
    /\ ~resultsClosed
    /\ Len(results) < resultsCap
    /\ results' = Append(results,
                         IF ret[i].Err = ErrTimeout /\ Len(resultChan[i]) > 0
                         THEN Head(resultChan[i]) ELSE ret[i])
    /\ wpc' = [wpc EXCEPT ![i] = "sent"]
    /\ UNCHANGED <<mainVars, resultsCap, resultsClosed, wg, cpc, wep, ctx,
                   resultChan, ret, probeVars, sinkVars, obs, harnessVars>>

\* `results <- result`
WorkerSend(i) ==
    /\ ReadyToSend(i)
    /\ ~Observing
    /\ ~resultsClosed
    /\ Len(results) < resultsCap
    /\ results' = Append(results, ret[i])
    /\ wpc' = [wpc EXCEPT ![i] = "sent"]
    /\ UNCHANGED <<mainVars, resultsCap, resultsClosed, wg, cpc, wep, ctx,
                   resultChan, ret, probeVars, sinkVars, obs, harnessVars>>

\* The worker's deferred calls: cancel(), then wg.Done().
WorkerExit(i) ==
    /\ wpc[i] = "sent"
    /\ ctx' = [ctx EXCEPT ![i] = IF @ = "active" THEN "canceled" ELSE @]
    /\ wg' = wg - 1
    /\ wpc' = [wpc EXCEPT ![i] = "done"]
    /\ UNCHANGED <<mainVars, results, resultsCap, resultsClosed, cpc, wep,
                   resultChan, ret, probeVars, sinkVars, obs, harnessVars>>

Next ==
    \/ HandlerNext
    \/ \E i \in Workers :
         ProbeNext(i) \/ WorkerPublish(i) \/ WorkerSend(i) \/ WorkerExit(i)

Spec == Init /\ [][Next]_vars

\* The handler under fair scheduling.  The handler's own thread, the
\* closer goroutine, each worker's thread and each context's timer are
\* scheduled fairly.  The probe goroutines of builds "ctx" and "retry" are
\* not: a connection attempt of theirs may never complete.  In build
\* "sync" the worker runs the probe itself, with the Dialer's Timeout
\* bounding the dial.
HandlerStep ==
    \/ ConfigFatal
    \/ ConfigOk
    \/ ClientsOk
    \/ ClientsFail
    \/ SplitEndpoints
    \/ Spawn
    \/ StartCloser
    \/ Collect
    \/ CollectEnd

CloserStep == WaitReturns \/ CloseResults

WorkerStep(i) ==
    \/ CallProbe(i)
    \/ SelectTimeout(i)
    \/ SelectResult(i)
    \/ SelectPark(i)
    \/ WorkerPublish(i)
    \/ WorkerSend(i)
    \/ WorkerExit(i)
    \/ (build = "sync" /\ (ProbeCheck(i) \/ DialFail(i) \/ DialOk(i)
                             \/ ReadCertificate(i) \/ CloseConn(i)))

\* The endpoint lists tried under fair scheduling: none, one entry without
\* a port, one with two colons, and two entries.
FairEndpointsValues ==
    { <<>>, <<"g">>, <<"h", ":", "1", ":", "2">>, <<"g", ",", "h", ":", "1">> }

InitFair ==
    /\ Init
    /\ env.ENDPOINTS \in FairEndpointsValues
    /\ env.NAMESPACE # ""

SpecFair ==
    /\ InitFair
    /\ [][Next]_vars
    /\ WF_vars(HandlerStep)
    /\ WF_vars(CloserStep)
    /\ \A i \in Workers : WF_vars(WorkerStep(i)) /\ WF_vars(DeadlineFire(i))

\* ------------------------------------ GetDaysRemaining called on its own
\* One call GetDaysRemaining(ctx, endpoint) with a context that has a
\* deadline, for any endpoint string, defaulted or not.
\* Strings with exactly one colon that are not a host and a numeric port:
\* no port, a port that is not a number, no host.
MalformedStrings == { <<"h", ":">>, <<"h", ":", "x">>, <<":", "1">> }

ProbeEndpoints ==
    EntryStrings \cup { DefaultedEndpoint(e) : e \in EntryStrings } \cup MalformedStrings

InitProbe ==
    /\ build \in Builds
    /\ env = [ENDPOINTS |-> <<>>, NAMESPACE |-> "", METRIC_NAME |-> ""]
    /\ mpc = "probe"
    /\ endpointList = <<>>
    /\ idx = 1
    /\ results = <<>>
    /\ resultsCap = 0
    /\ resultsClosed = FALSE
    /\ wg = 0
    /\ cpc = "none"
    /\ wpc = [i \in Workers |-> IF i = 1 THEN "start" ELSE "none"]
    /\ wep \in { [i \in Workers |-> IF i = 1 THEN e ELSE <<>>] : e \in ProbeEndpoints }
    /\ ctx = [i \in Workers |-> "none"]
    /\ resultChan = [i \in Workers |-> <<>>]
    /\ ret = [i \in Workers |-> NoResult]
    /\ gpc = [i \in Workers |-> "none"]
    /\ attempt = [i \in Workers |-> 0]
    /\ err = [i \in Workers |-> 0]
    /\ conn = [i \in Workers |-> "none"]
    /\ peer = [i \in Workers |-> <<>>]
    /\ sleepMs = [i \in Workers |-> 0]
    /\ obs = [i \in Workers |-> ObsInit]
    /\ collected = <<>>
    /\ published = <<>>
    /\ out = <<>>
    /\ pubErrs = <<>>
    /\ parent = "active"
    /\ IdleHarness

NextProbe == ProbeNext(1)

SpecProbe == InitProbe /\ [][NextProbe]_vars

\* The steps of the probe itself.  Each of them ends: the dial is bounded
\* by the Dialer's Timeout, the sleep by its duration, and the rest is
\* local computation; so the probe is scheduled fairly.
GoroutineStep(i) ==
    \/ ProbeCheck(i)
    \/ DialFail(i)
    \/ DialOk(i)
    \/ SleepDone(i)
    \/ ReadCertificate(i)
    \/ CloseConn(i)

SpecProbeFair == SpecProbe /\ WF_vars(GoroutineStep(1))

\* ------------------------------------------- ExponentialBackoff alone
\* Successive calls ExponentialBackoff(0), ExponentialBackoff(1), ... as
\* the retry loop makes them, for every value rand.Intn(100) can return;
\* bk keeps the last two results.
InitBackoff ==
    /\ build = "retry"
    /\ env = [ENDPOINTS |-> <<>>, NAMESPACE |-> "", METRIC_NAME |-> ""]
    /\ mpc = "backoff"
    /\ endpointList = <<>>
    /\ idx = 1
    /\ results = <<>>
    /\ resultsCap = 0
    /\ resultsClosed = FALSE
    /\ wg = 0
    /\ cpc = "none"
    /\ IdleWorkers
    /\ collected = <<>>
    /\ published = <<>>
    /\ out = <<>>
    /\ pubErrs = <<>>
    /\ parent = "active"
    /\ IdleHarness

BackoffCall ==
    /\ mpc = "backoff"
    /\ bk.calls <= maxRetries
    /\ \E j \in 0..(JitterRange - 1) :
         bk' = [calls |-> bk.calls + 1,
                jitter |-> j,
                cur |-> ExponentialBackoff(bk.calls, j),
                prevJitter |-> bk.jitter,
                prev |-> bk.cur]
    /\ UNCHANGED <<mainVars, chanVars, callVars, probeVars, sinkVars, obs, dr, pm, tm>>

SpecBackoff == InitBackoff /\ [][BackoffCall]_vars

\* ------------------------------------- cancellation of the handler's ctx
\* The context the platform hands to the handler is cancelled or reaches
\* its deadline while the handler runs.  The handler passes it to
\* getCompartmentID only; each worker derives its context from
\* context.Background().
ParentCancel ==
    /\ mpc \in {"config", "client", "split", "loop", "collect"}
    /\ parent = "active"
    /\ parent' = "cancelled"
    /\ UNCHANGED <<build, env, mpc, endpointList, idx, chanVars, callVars,
                   probeVars, sinkVars, obs, harnessVars>>

NextCancel == Next \/ ParentCancel

SpecCancel == Init /\ [][NextCancel]_vars

\* ------------------------------------------- the days remaining alone
\* `int(time.Until(cert.NotAfter).Hours() / 24)` for every whole number of
\* hours from MaxHours in the past to MaxHours ahead.
InitDays ==
    /\ build \in Builds
    /\ env = [ENDPOINTS |-> <<>>, NAMESPACE |-> "", METRIC_NAME |-> ""]
    /\ mpc = "days"
    /\ endpointList = <<>>
    /\ idx = 1
    /\ results = <<>>
    /\ resultsCap = 0
    /\ resultsClosed = FALSE
    /\ wg = 0
    /\ cpc = "none"
    /\ IdleWorkers
    /\ collected = <<>>
    /\ published = <<>>
    /\ out = <<>>
    /\ pubErrs = <<>>
    /\ parent = "active"
    /\ bk = BkInit
    /\ pm = PmInit
    /\ tm = TmInit
    /\ dr \in [hours : (-MaxHours)..MaxHours, days : {0}, done : {FALSE}]

DaysCall ==
    /\ mpc = "days"
    /\ ~dr.done
    /\ dr' = [hours |-> dr.hours, days |-> DaysRemainingOf(dr.hours), done |-> TRUE]
    /\ UNCHANGED <<mainVars, chanVars, callVars, probeVars, sinkVars, obs, bk, pm, tm>>

SpecDays == InitDays /\ [][DaysCall]_vars

\* ----------------------------------------------- publishMetricData alone
\* One call of publishMetricData for every answer of PostMetricData.
InitPublish ==
    /\ build \in Builds
    /\ env = [ENDPOINTS |-> <<>>, NAMESPACE |-> "", METRIC_NAME |-> ""]
    /\ mpc = "publish"
    /\ endpointList = <<>>
    /\ idx = 1
    /\ results = <<>>
    /\ resultsCap = 0
    /\ resultsClosed = FALSE
    /\ wg = 0
    /\ cpc = "none"
    /\ IdleWorkers
    /\ collected = <<>>
    /\ published = <<>>
    /\ out = <<>>
    /\ pubErrs = <<>>
    /\ parent = "active"
    /\ bk = BkInit
    /\ dr = DrInit
    /\ tm = TmInit
    /\ pm \in [resp : PublishResponses, ret : {NoErr}, done : {FALSE}]

PublishCall ==
    /\ mpc = "publish"
    /\ ~pm.done
    /\ pm' = [resp |-> pm.resp, ret |-> publishMetricData(pm.resp), done |-> TRUE]
    /\ UNCHANGED <<mainVars, chanVars, callVars, probeVars, sinkVars, obs, bk, dr, tm>>

SpecPublish == InitPublish /\ [][PublishCall]_vars

\* ------------------------------------- the retrying probe against time
\* One call of the retrying GetDaysRemaining for an endpoint on which every
\* connection attempt runs to the Dialer's Timeout.  tm.now is the probe
\* goroutine's clock in milliseconds since the worker made its context and
\* called GetDaysRemaining; tm.selectAt is when the caller evaluates its
\* select; tm.resultAt is when the goroutine sent its Result.
InitTimed ==
    /\ build = "retry"
    /\ env = [ENDPOINTS |-> <<>>, NAMESPACE |-> "", METRIC_NAME |-> ""]
    /\ mpc = "timed"
    /\ endpointList = <<>>
    /\ idx = 1
    /\ results = <<>>
    /\ resultsCap = 0
    /\ resultsClosed = FALSE
    /\ wg = 0
    /\ cpc = "none"
    /\ IdleWorkers
    /\ collected = <<>>
    /\ published = <<>>
    /\ out = <<>>
    /\ pubErrs = <<>>
    /\ parent = "active"
    /\ bk = BkInit
    /\ dr = DrInit
    /\ pm = PmInit
    /\ tm \in { [TmInit EXCEPT !.phase = "dial", !.selectAt = d] :
                 d \in {0, MaxSelectDelayMs} }

\* tls.DialWithDialer returns its timeout error when the Dialer's Timeout
\* has passed.
TimedDialTimeout ==
    /\ mpc = "timed"
    /\ tm.phase = "dial"
    /\ tm' = [tm EXCEPT !.now = @ + dialTimeoutMs, !.phase = "sleep"]
    /\ UNCHANGED <<mainVars, chanVars, callVars, probeVars, sinkVars, obs, bk, dr, pm>>

\* `time.Sleep(ExponentialBackoff(attempt))`, `attempt++`, and either the
\* next attempt or, the loop over, the send of ConnectionFailed.
TimedSleep ==
    /\ mpc = "timed"
    /\ tm.phase = "sleep"
    /\ \E j \in 0..(JitterRange - 1) :
         tm' = IF LoopContinues(tm.attempt + 1)
               THEN [tm EXCEPT !.now = @ + ExponentialBackoff(tm.attempt, j),
                               !.attempt = @ + 1,
                               !.phase = "dial"]
               ELSE [tm EXCEPT !.now = @ + ExponentialBackoff(tm.attempt, j),
                               !.resultAt = tm.now + ExponentialBackoff(tm.attempt, j),
                               !.phase = "done"]
    /\ UNCHANGED <<mainVars, chanVars, callVars, probeVars, sinkVars, obs, bk, dr, pm>>

\* What `select { case <-ctx.Done(): ... case res := <-resultChan: ... }`
\* can return when it is evaluated at selectAt, ctx.Done() is closed at
\* deadline and the Result is sent at resultAt: the select completes when
\* it is evaluated or, if no case is ready then, at the first of the two
\* events, and takes any case that is ready at that moment.
SelectOutcomes(selectAt, deadline, resultAt) ==
    LET first == IF resultAt < deadline THEN resultAt ELSE deadline
        completes == IF selectAt > first THEN selectAt ELSE first
    IN  (IF deadline <= completes THEN {"Timeout"} ELSE {})
        \cup (IF resultAt <= completes THEN {"ConnectionFailed"} ELSE {})

\* GetDaysRemaining returns, the goroutine's timeline being known.
TimedSelect ==
    /\ mpc = "timed"
    /\ tm.phase = "done"
    /\ tm.ret = "none"
    /\ \E r \in SelectOutcomes(tm.selectAt, deadlineMs, tm.resultAt) :
         tm' = [tm EXCEPT !.ret = r]
    /\ UNCHANGED <<mainVars, chanVars, callVars, probeVars, sinkVars, obs, bk, dr, pm>>

NextTimed == TimedDialTimeout \/ TimedSleep \/ TimedSelect

SpecTimed == InitTimed /\ [][NextTimed]_vars

\* ============================================================= claims

\* The configured port default, written out: an entry without a colon
\* gets ":443".
PortDefaulted(e) ==
    IF \E k \in 1..Len(e) : e[k] = ":" THEN e ELSE e \o <<":", "4", "4", "3">>

Occurrences(seq, x) == Cardinality({ k \in 1..Len(seq) : seq[k] = x })

CollectedEndpoints == [k \in 1..Len(collected) |-> collected[k].Endpoint]
ConfiguredEndpoints == [k \in 1..Len(endpointList) |-> PortDefaulted(endpointList[k])]

\* C1: when the collection loop has ended, as many Results were collected
\* as endpoints were configured, and every (port-defaulted) endpoint occurs
\* among the Results' Endpoint fields exactly as often as in the
\* configuration, whatever each probe's outcome was.
C1_OneResultPerEndpoint ==
    mpc = "returned" =>
        /\ Len(collected) = Len(endpointList)
        /\ Len(endpointList) >= 1
        /\ \A k \in 1..Len(endpointList) :
             Occurrences(CollectedEndpoints, ConfiguredEndpoints[k])
               = Occurrences(ConfiguredEndpoints, ConfiguredEndpoints[k])

\* C1 witness: a run of two endpoints ends with one Timeout and one
\* successful Result collected.
C1_Witness ==
    /\ mpc = "returned"
    /\ Len(endpointList) = 2
    /\ \E j, k \in 1..Len(collected) :
         /\ collected[j].Err = ErrTimeout
         /\ collected[k].Err = NoErr

Delivered(i) == wpc[i] \in {"sent", "done"}

\* C2: the results channel is closed, and the collection loop ends, only
\* when every worker has sent its Result on the results channel.
C2_JoinBeforeReturn ==
    (resultsClosed \/ mpc = "returned") =>
        \A i \in 1..Len(endpointList) : Delivered(i)

\* C2 witness: the handler has returned from a run of two endpoints.
C2_Witness ==
    /\ mpc = "returned"
    /\ resultsClosed
    /\ Len(endpointList) = 2
    /\ \A i \in 1..2 : wpc[i] = "done"

\* Positions of the probe goroutine at which it has not yet sent a Result.
Unresolved == {"check", "dial", "sleep", "cert"}

\* C3 as stated, for the GetDaysRemaining that selects on the deadline: if
\* the deadline fired while the probe had not resolved, whatever
\* GetDaysRemaining returns is the Timeout Result.
C3_TimeoutWheneverDeadlineFirst ==
    \A i \in Workers :
        (/\ HasSelect
         /\ obs[i].fired # <<>>
         /\ obs[i].fired[1] \in Unresolved
         /\ ret[i] # NoResult)
        => ret[i] = TimeoutResult(wep[i])

\* C3 as amended, for the GetDaysRemaining that selects on the deadline: a
\* caller is never waiting in the select once the deadline has fired; if
\* the deadline fired while the caller was waiting there, GetDaysRemaining
\* returned the Timeout Result; and a Result other than Timeout after such
\* a deadline is returned only to a caller that had not yet reached the
\* select when the deadline fired.
C3_TimeoutWhenWaiting ==
    \A i \in Workers :
        /\ ctx[i] = "expired" => wpc[i] # "parked"
        /\ (obs[i].fired # <<>> /\ obs[i].fired[2] = "parked")
             => ret[i] = TimeoutResult(wep[i])
        /\ (/\ HasSelect
            /\ obs[i].fired # <<>>
            /\ obs[i].fired[1] \in Unresolved
            /\ ret[i] # NoResult
            /\ ret[i] # TimeoutResult(wep[i]))
             => obs[i].fired[2] = "select"

\* C3 witness: the deadline fired during a backoff wait with the caller
\* waiting, and the Timeout Result was returned while the probe still
\* sleeps.
C3_Witness ==
    \E i \in Workers :
        /\ obs[i].fired = <<"sleep", "parked">>
        /\ gpc[i] = "sleep"
        /\ ret[i] = TimeoutResult(wep[i])

\* C4 as stated: once GetDaysRemaining has returned Timeout, the probe
\* starts no connection attempt and no backoff wait.
C4_NoWorkAfterTimeout ==
    [][\A i \in Workers :
          ret[i].Err = ErrTimeout =>
              (gpc'[i] \in {"dial", "sleep"} => gpc'[i] = gpc[i])]_vars

\* GetDaysRemaining has returned to its caller.
Returned(i) == wpc[i] \in {"return", "publish", "sent", "done"}

\* C5 as stated: when GetDaysRemaining returns its Result no connection
\* of the probe is open, none is opened after that, and none is open once
\* the probe goroutine has ended.
C5_NoOpenConnectionAtReturn ==
    /\ [][\A i \in Workers :
            /\ (~Returned(i) /\ Returned(i)') => conn'[i] # "open"
            /\ (Returned(i) /\ conn[i] # "open") => conn'[i] # "open"]_vars
    /\ [](\A i \in Workers : gpc[i] = "done" => conn[i] # "open")

\* C6 as stated: a retrying probe that reports ConnectionFailed has made
\* maxRetries + 1 connection attempts.
C6_FourAttempts ==
    \A i \in Workers :
        (build = "retry" /\ ret[i].Err.kind = "ConnectionFailed")
        => obs[i].dials = maxRetries + 1

\* C7: a retrying probe whose third connection attempt is the first to
\* succeed (presenting a certificate), and whose deadline has not fired,
\* returns a Result without error that carries the days remaining of the
\* leaf certificate.
C7_ThirdAttemptSucceeds ==
    \A i \in Workers :
        (/\ build = "retry"
         /\ obs[i].dials = 3
         /\ obs[i].certs # <<>>
         /\ Len(obs[i].certs[1]) > 0
         /\ obs[i].fired = <<>>
         /\ ret[i] # NoResult)
        => /\ ret[i].Err = NoErr
           /\ ret[i].Endpoint = wep[i]
           /\ ret[i].DaysRemaining = DaysRemainingOf(obs[i].certs[1][1])

\* C7 witness: such a probe has returned.
C7_Witness ==
    \E i \in Workers :
        /\ build = "retry"
        /\ obs[i].dials = 3
        /\ obs[i].fired = <<>>
        /\ ret[i].Err = NoErr
        /\ ret[i].DaysRemaining = 50

\* C8 as stated: the wait computed for retry number attempt is
\* 100 * 2^attempt + jitter milliseconds.
C8_Base100 ==
    bk.calls > 0 => bk.cur = 100 * (2 ^ (bk.calls - 1)) + bk.jitter

\* C8 as amended: the wait computed for retry number attempt is
\* 200 * 2^attempt + jitter milliseconds, jitter a whole number in
\* [0, 100): 200, 400, 800 plus jitter.
C8_Base200 ==
    bk.calls > 0 =>
        /\ bk.cur = 200 * (2 ^ (bk.calls - 1)) + bk.jitter
        /\ bk.jitter \in 0..99

\* C8 witness: the wait for attempt 2 with the largest jitter.
C8_Witness == bk.calls = 3 /\ bk.jitter = 99 /\ bk.cur = 899

\* C9: of two successive waits the later is strictly longer, with the
\* jitter left out and with any two jitter values.
C9_StrictlyIncreasing ==
    bk.calls >= 2 =>
        /\ bk.prev < bk.cur
        /\ bk.prev - bk.prevJitter < bk.cur - bk.jitter

\* C9 witness: the largest jitter followed by the smallest.
C9_Witness == bk.calls >= 2 /\ bk.prevJitter = 99 /\ bk.jitter = 0

NoColon(e) == \A k \in 1..Len(e) : e[k] # ":"

C11_MalformedNeverDialled ==
    \A i \in Workers :
        LET parts == Split(wep[i], Colon)
            numeric(t) == Len(t) > 0 /\ \A k \in 1..Len(t) :
                            t[k] \in {"0", "1", "2", "3", "4", "5", "6", "7", "8", "9"}
            hostAndPort == Len(parts) = 2 /\ Len(parts[1]) > 0 /\ numeric(parts[2])
        IN  (build \in {"sync", "ctx"} /\ wpc[i] # "none" /\ ~hostAndPort) =>
                /\ obs[i].dials = 0
                /\ conn[i] = "none"
                /\ (ret[i] # NoResult /\ ret[i].Err # ErrTimeout)
                     => ret[i].Err = ErrInvalidFormat

\* C12 as stated: for an endpoint string that does not split into two
\* parts at its colons, the retrying GetDaysRemaining makes no dial and
\* sleeps no backoff, and what it returns, unless the deadline fired, is
\* InvalidFormat.
C12_MalformedNotRetried ==
    \A i \in Workers :
        (build = "retry" /\ wpc[i] # "none" /\ InvalidFormat(wep[i])) =>
            /\ obs[i].dials = 0
            /\ gpc[i] # "sleep"
            /\ (ret[i] # NoResult /\ ret[i].Err # ErrTimeout)
                 => ret[i].Err = ErrInvalidFormat

\* C13: once a handshake has succeeded with an empty certificate chain the
\* probe is never again dialling or sleeping a backoff; the Result it
\* produces, as its next step, is NoCertificate; and GetDaysRemaining
\* returns that Result (only a deadline that fired can make it return
\* Timeout instead).
C13_NoCertificateAtOnce ==
    \A i \in Workers :
        obs[i].certs = << <<>> >> =>
            /\ gpc[i] \in {"cert", "defer", "done"}
            /\ gpc[i] \in {"defer", "done"} =>
                 \/ resultChan[i] = << Result(wep[i], 0, ErrNoCertificate) >>
                 \/ ret[i] = Result(wep[i], 0, ErrNoCertificate)
            /\ gpc[i] = "cert" => resultChan[i] = <<>>
            /\ (ret[i] # NoResult /\ obs[i].fired = <<>>)
                 => ret[i] = Result(wep[i], 0, ErrNoCertificate)
            /\ ret[i] # NoResult
                 => ret[i].Err \in {ErrNoCertificate, ErrTimeout}

\* C13 witness: a retrying probe whose second dial succeeded with an empty
\* chain has ended, and GetDaysRemaining returned NoCertificate.
C13_Witness ==
    \E i \in Workers :
        /\ build = "retry"
        /\ obs[i].certs = << <<>> >>
        /\ obs[i].dials = 2
        /\ gpc[i] = "done"
        /\ ret[i].Err = ErrNoCertificate

\* C14 as stated: for a whole number of hours h to notAfter the days
\* remaining are floor(h / 24): negative for every notAfter in the past,
\* and 50 for a notAfter 50 days ahead.
C14_FloorOfHours ==
    dr.done =>
        /\ dr.days = dr.hours \div 24
        /\ dr.hours < 0 => dr.days < 0
        /\ dr.hours = 50 * 24 => dr.days = 50

\* C15: whatever the other endpoints' probes are doing, (1) a worker whose
\* GetDaysRemaining has returned can send its Result at once, (2) the
\* handler is never waiting for a worker while it starts the workers, and
\* a Result in the results channel can be collected (and is published if
\* successful) at once, (3) every Result collected is the one its own
\* worker obtained, and (4) no step of another endpoint changes a Result
\* that GetDaysRemaining has returned.
C15_NoCrossEndpointDelay ==
    /\ [](\A i \in Workers : ReadyToSend(i) => ENABLED WorkerSend(i))
    /\ [](mpc = "loop" => ENABLED (Spawn \/ StartCloser))
    /\ []((mpc = "collect" /\ Len(results) > 0) => ENABLED Collect)
    /\ [](\A k \in 1..Len(collected) :
            \E i \in Workers : wpc[i] \in {"sent", "done"} /\ collected[k] = ret[i])
    /\ [][\A i \in Workers :
            (Returned(i) /\ ret'[i] # ret[i]) =>
                (wpc[i] = "return" /\ wpc'[i] = "publish")]_vars

\* C15 witness: endpoint A's Result has been collected and published
\* while endpoint B's probe is in a backoff wait.
C15_Witness ==
    \E a, b \in Workers :
        /\ build = "retry"
        /\ wpc[a] = "done"
        /\ ret[a].Err = NoErr
        /\ collected = << ret[a] >>
        /\ published = << DataPoint(ret[a]) >>
        /\ gpc[b] = "sleep"
        /\ wpc[b] = "parked"

\* C16 as stated: once the handler's own context is cancelled, every worker
\* that is still inside GetDaysRemaining has a cancelled context, and no
\* probe starts a connection attempt or a backoff wait any more.
C16_ParentCancelPropagates ==
    /\ [](\A i \in Workers :
            (parent = "cancelled" /\ wpc[i] \in {"select", "parked", "call"})
            => ctx[i] \in {"expired", "canceled"})
    /\ [][\A i \in Workers :
            (parent = "cancelled" /\ gpc'[i] \in {"dial", "sleep"})
            => gpc'[i] = gpc[i]]_vars

\* C17: when the endpoint list, NAMESPACE or METRIC_NAME is empty, the
\* handler is at its configuration check or has ended fatally there, and
\* no worker was started, no probe ran, no connection was opened, nothing
\* was collected or published.
C17_FatalBeforeAnyWork ==
    (env.ENDPOINTS = <<>> \/ env.NAMESPACE = "" \/ env.METRIC_NAME = "") =>
        /\ mpc \in {"config", "fatal"}
        /\ wg = 0
        /\ cpc = "none"
        /\ \A i \in Workers : wpc[i] = "none" /\ gpc[i] = "none" /\ conn[i] = "none"
        /\ collected = <<>>
        /\ published = <<>>
        /\ out = <<>>

\* C17 witness: a run with endpoints and NAMESPACE set and METRIC_NAME
\* empty has ended fatally.
C17_Witness ==
    /\ mpc = "fatal"
    /\ env.ENDPOINTS # <<>>
    /\ env.NAMESPACE # ""
    /\ env.METRIC_NAME = ""

\* C18: in every state the data points handed to publishMetricData are,
\* one for one, the successful Results that have reached the publishing
\* step (in builds "ctx" and "retry" the collected Results with Err nil;
\* in build "sync" the workers past their publish call, whose probe
\* returned no error): each data point carries the endpoint as resourceId
\* and the days remaining as value, and there is none besides these.
C18_OneDataPointPerSuccess ==
    LET through == IF build = "sync"
                   THEN { i \in Workers :
                            /\ wpc[i] \in {"publish", "sent", "done"}
                            /\ ret[i].Err \in {NoErr, ErrPublishFailed} }
                   ELSE { k \in 1..Len(collected) : collected[k].Err = NoErr }
        res(x) == IF build = "sync" THEN ret[x] ELSE collected[x]
        point(x) == [resourceId |-> res(x).Endpoint, value |-> res(x).DaysRemaining]
    IN  /\ Len(published) = Cardinality(through)
        /\ \A x \in through :
             Occurrences(published, point(x))
               = Cardinality({ y \in through : point(y) = point(x) })
        /\ \A k \in 1..Len(published) : \E x \in through : published[k] = point(x)

\* C18 witness: a run of two endpoints has ended with one successful
\* Result of 50 days, published, and one failed Result, not published.
C18_Witness ==
    /\ mpc = "returned"
    /\ build = "ctx"
    /\ \E j, k \in 1..Len(collected) :
         /\ collected[j].Err = NoErr
         /\ collected[k].Err.kind = "ConnectionFailed"
         /\ published = << [resourceId |-> collected[j].Endpoint, value |-> 50] >>

\* C19: (1) a publish error is logged by the collection loop and leaves
\* the handler in that loop, which can only end by returning; (2) when the
\* handler returns, every endpoint's Result was collected and every
\* successful Result was handed to publishMetricData, whatever publish
\* errors occurred before it; (3) the Result of an endpoint whose publish
\* failed is still the successful Result its worker obtained, with its
\* days remaining.
C19_PublishErrorNotFatal ==
    /\ [](pubErrs # <<>> => mpc \in {"collect", "returned"})
    /\ [][pubErrs' # pubErrs =>
            /\ mpc' = "collect"
            /\ pubErrs' = Append(pubErrs, Head(results).Endpoint)
            /\ collected' = Append(collected, Head(results))]_vars
    /\ [](mpc = "returned" =>
            /\ Len(collected) = Len(endpointList)
            /\ Len(published) =
                 Cardinality({ k \in 1..Len(collected) :
                     \/ collected[k].Err = NoErr
                     \/ build = "sync" /\ collected[k].Err = ErrPublishFailed }))
    /\ [](\A k \in 1..Len(pubErrs) :
            \E j \in 1..Len(collected), i \in Workers :
                /\ collected[j].Endpoint = pubErrs[k]
                /\ collected[j].Err = NoErr
                /\ collected[j] = ret[i]
                /\ \E n \in 1..Len(published) :
                     published[n] = [resourceId |-> ret[i].Endpoint,
                                     value |-> ret[i].DaysRemaining])

\* C19 witness: of two successful endpoints the first one's publish
\* failed; the handler has returned with both Results collected and both
\* handed to publishMetricData.
C19_Witness ==
    /\ mpc = "returned"
    /\ build = "retry"
    /\ Len(collected) = 2
    /\ pubErrs = << collected[1].Endpoint >>
    /\ collected[2].Err = NoErr
    /\ Len(published) = 2

\* C20: publishMetricData returns no error exactly when the request
\* succeeded and the failed-metrics count is absent or zero; when the
\* request itself failed it returns the "failed to post" error; when the
\* request succeeded with a failed-metrics count above zero it returns
\* the "encountered n errors" error, which carries that count and differs
\* from the "failed to post" error.
C20_PartialDistinctFromTotal ==
    pm.done =>
        LET count == pm.resp.FailedMetricsCount
            partial == ~pm.resp.err /\ ~count.isNil /\ count.v > 0
        IN  /\ pm.ret = [kind |-> "nil", cause |-> 0]
                 <=> (~pm.resp.err /\ (count.isNil \/ count.v = 0))
            /\ pm.resp.err => pm.ret = [kind |-> "PostFailed", cause |-> 0]
            /\ partial => pm.ret = [kind |-> "MetricsFailed", cause |-> count.v]
            /\ partial => pm.ret # [kind |-> "PostFailed", cause |-> 0]

\* C20 witness: the request succeeded and one metric was reported failed.
C20_Witness ==
    /\ pm.done
    /\ ~pm.resp.err
    /\ pm.resp.FailedMetricsCount = [isNil |-> FALSE, v |-> 1]
    /\ pm.ret.kind = "MetricsFailed"

\* C21 as stated: when the handler has returned from the collection loop,
\* its output holds exactly one line for every configured endpoint, whatever
\* the endpoint's outcome was.
C21_OneOutputLinePerEndpoint ==
    mpc = "returned" =>
        /\ Len(out) = Len(endpointList)
        /\ \A k \in 1..Len(endpointList) :
              Cardinality({ n \in 1..Len(out) :
                              out[n].Endpoint = PortDefaulted(endpointList[k]) })
              = Occurrences(ConfiguredEndpoints, PortDefaulted(endpointList[k]))

\* C22 as stated: a run has ended fatally exactly when a required setting
\* was missing or the monitoring client could not be created.
C22_FatalIffConfigOrClientError ==
    mpc \in {"fatal", "clientFailed", "compartmentFailed", "returned"} =>
        ( mpc = "fatal"
          <=> \/ env.ENDPOINTS = <<>> \/ env.NAMESPACE = "" \/ env.METRIC_NAME = ""
              \/ mpc = "clientFailed" )

\* The Results GetDaysRemaining has produced for worker i so far: the one
\* it returned and the one waiting in resultChan.
Produced(i) ==
    { r \in {ret[i]} \cup { resultChan[i][k] : k \in 1..Len(resultChan[i]) } :
        r # NoResult }

\* C23: in every Result a probe produces exactly one of the two payload
\* fields is populated: a Result with an error has DaysRemaining zero, and
\* a Result without an error carries the days computed from the leaf
\* certificate of the handshake that was made.
C23_DaysXorError ==
    \A i \in Workers : \A r \in Produced(i) :
        /\ r.Err # NoErr => r.DaysRemaining = 0
        /\ r.Err = NoErr =>
              /\ obs[i].certs # <<>>
              /\ Len(obs[i].certs[1]) > 0
              /\ r.DaysRemaining = DaysRemainingOf(obs[i].certs[1][1])

\* C23 witness: the handshake presented no certificate and GetDaysRemaining
\* has returned NoCertificate with zero days.
C23_Witness ==
    \E i \in Workers :
        /\ obs[i].certs = << <<>> >>
        /\ ret[i].Err = ErrNoCertificate
        /\ ret[i].DaysRemaining = 0

C25_WrapsLastAttempt ==
    \A i \in Workers : \A r \in Produced(i) :
        r.Err.kind = "ConnectionFailed" => r.Err.cause = obs[i].dials

\* C25 witness: all maxRetries attempts failed and GetDaysRemaining has
\* returned ConnectionFailed wrapping the third attempt's error.
C25_Witness ==
    \E i \in Workers :
        /\ build = "retry"
        /\ obs[i].dials = maxRetries
        /\ ret[i].Err = ErrConnectionFailed(maxRetries)

\* C26: when the retrying probe has produced ConnectionFailed, every
\* backoff wait it scheduled has elapsed in full: on the goroutine's clock
\* the time passed since the first attempt is at least the sum of the
\* scheduled delays, which is at least the sum of their bases.
C26_FailedOnlyAfterAllWaits ==
    \A i \in Workers : \A r \in Produced(i) :
        (build = "retry" /\ r.Err.kind = "ConnectionFailed") =>
            /\ sleepMs[i] = 0
            /\ obs[i].slept >= obs[i].scheduled
            /\ obs[i].scheduled >= 200 + 400 + 800

\* C26 witness: three waits with the largest jitter were scheduled and have
\* elapsed, and GetDaysRemaining has returned ConnectionFailed.
C26_Witness ==
    \E i \in Workers :
        /\ build = "retry"
        /\ ret[i].Err.kind = "ConnectionFailed"
        /\ obs[i].scheduled = 200 + 400 + 800 + 3 * (JitterRange - 1)
        /\ obs[i].slept = obs[i].scheduled

\* Where an endpoint's unit stands: the Result GetDaysRemaining returned
\* decides the terminal state; before that the unit is Pending until the
\* worker calls GetDaysRemaining, Retrying while the probe sleeps a
\* backoff, and Connecting otherwise.
UnitState(i) ==
    IF ret[i] # NoResult
    THEN IF ret[i].Err = NoErr THEN "Succeeded"
         ELSE IF ret[i].Err = ErrTimeout THEN "TimedOut"
         ELSE "Failed"
    ELSE IF wpc[i] \in {"none", "start"} THEN "Pending"
    ELSE IF gpc[i] = "sleep" THEN "Retrying"
    ELSE "Connecting"

\* C27 as stated: every change of an endpoint's unit state is one of
\* Pending -> Connecting, Connecting <-> Retrying, Connecting -> Succeeded,
\* Connecting -> Failed, or any non-terminal state -> TimedOut; no terminal
\* state is ever left.
C27_StateMachine ==
    [][\A i \in Workers :
         UnitState(i)' # UnitState(i) =>
            <<UnitState(i), UnitState(i)'>> \in
                { <<"Pending", "Connecting">>,
                  <<"Connecting", "Retrying">>,
                  <<"Retrying", "Connecting">>,
                  <<"Connecting", "Succeeded">>,
                  <<"Connecting", "Failed">>,
                  <<"Pending", "TimedOut">>,
                  <<"Connecting", "TimedOut">>,
                  <<"Retrying", "TimedOut">> }]_vars

\* C28 as stated: a backoff wait is started only by a failed connection
\* attempt, and, unless the deadline has fired, a backoff wait that ends is
\* followed by another connection attempt.
C28_WaitThenAttempt ==
    [][\A i \in Workers :
         /\ (gpc[i] # "sleep" /\ gpc'[i] = "sleep") => gpc[i] = "dial"
         /\ (gpc[i] = "sleep" /\ gpc'[i] # "sleep") =>
                (gpc'[i] = "dial" \/ ctx[i] = "expired")]_vars

\* C29: whenever the retrying probe makes a connection attempt or is in
\* the backoff wait computed from the attempt counter, the counter is
\* within 0..maxRetries-1, and the wait is ExponentialBackoff of it.
C29_AttemptInRange ==
    \A i \in Workers :
        /\ attempt[i] \in 0..(maxRetries - 1)
        /\ (build = "retry" /\ gpc[i] = "sleep") =>
              \E j \in 0..(JitterRange - 1) :
                  sleepMs[i] = ExponentialBackoff(attempt[i], j)

\* C29 witness: the last attempt of the loop has failed and the probe
\* waits ExponentialBackoff(maxRetries-1) with the largest jitter.
C29_Witness ==
    \E i \in Workers :
        /\ build = "retry"
        /\ gpc[i] = "sleep"
        /\ attempt[i] = maxRetries - 1
        /\ obs[i].dials = maxRetries
        /\ sleepMs[i] = 800 + JitterRange - 1

\* C30 as stated: if the probe had sent its Result when the deadline
\* fired, whatever GetDaysRemaining returns is not Timeout.
C30_ResultBeforeDeadlineWins ==
    \A i \in Workers :
        (/\ HasSelect
         /\ obs[i].fired # <<>>
         /\ obs[i].fired[1] \in {"defer", "done"}
         /\ ret[i] # NoResult)
        => ret[i].Err # ErrTimeout

\* C30 amended: a caller waiting in the select never has a Result pending
\* in resultChan; and if the probe had sent its Result when the deadline
\* fired, the caller was not waiting in the select at that moment, and
\* GetDaysRemaining returns Timeout only if the caller had not yet reached
\* the select then (both cases were ready when it did).
C30_ResultWinsUnlessBothReady ==
    \A i \in Workers :
        /\ wpc[i] = "parked" => resultChan[i] = <<>>
        /\ (/\ HasSelect
            /\ obs[i].fired # <<>>
            /\ obs[i].fired[1] \in {"defer", "done"})
           => /\ obs[i].fired[2] \in {"select", "return"}
              /\ (ret[i] # NoResult /\ ret[i].Err = ErrTimeout)
                    => obs[i].fired[2] = "select"

\* C30 witness: the deadline fired when the probe had sent its Result and
\* ended and the caller had not yet reached the select, and
\* GetDaysRemaining has returned the successful Result.
C30_Witness ==
    \E i \in Workers :
        /\ obs[i].fired = <<"done", "select">>
        /\ ret[i].Err = NoErr
        /\ ret[i].DaysRemaining = 50

\* C31: an endpoint whose GetDaysRemaining returned Timeout keeps that
\* Result; each worker puts exactly one Result on the results channel, the
\* one GetDaysRemaining returned, so what the probe goroutine sends later
\* stays in resultChan; and the data points published for an endpoint
\* string are never more than the workers of that string whose Result is
\* not Timeout.
C31_TimeoutIsFinal ==
    /\ [](Len(results) + Len(collected)
            = Cardinality({ i \in Workers : wpc[i] \in {"sent", "done"} }))
    /\ [](\A k \in 1..Len(results) :
            \E i \in Workers : wpc[i] \in {"sent", "done"} /\ results[k] = ret[i])
    /\ [](\A i \in Workers :
            Cardinality({ n \in 1..Len(published) : published[n].resourceId = wep[i] })
            <= Cardinality({ j \in Workers : /\ wep[j] = wep[i]
                                             /\ ret[j] # NoResult
                                             /\ ret[j].Err # ErrTimeout }))
    /\ [][\A i \in Workers : ret[i].Err = ErrTimeout => ret'[i] = ret[i]]_vars

\* C31 witness: the handler has returned with the Timeout of its one
\* endpoint collected and nothing published, while the successful Result
\* the probe produced later is left in resultChan.
C31_Witness ==
    \E i \in Workers :
        /\ mpc = "returned"
        /\ collected = << ret[i] >>
        /\ ret[i].Err = ErrTimeout
        /\ published = <<>>
        /\ Len(resultChan[i]) = 1
        /\ resultChan[i][1].Err = NoErr

\* C32: the results channel has room for one Result per endpoint, sent and
\* collected Results together never exceed that, and whenever a worker has
\* its Result to send the channel has a free slot, whether or not the
\* collection loop has taken anything.
C32_SendNeverBlocks ==
    /\ mpc \in {"loop", "collect", "returned"} => resultsCap = Len(endpointList)
    /\ Len(results) <= resultsCap
    /\ Len(results) + Len(collected) <= resultsCap
    /\ \A i \in Workers :
          (wpc[i] = "publish" \/ (wpc[i] = "return" /\ (build # "sync" \/ ret[i].Err # NoErr)))
          => Len(results) < resultsCap

\* C32 witness: both workers have sent while the collection loop has taken
\* nothing: the channel is full and nobody is left to send.
C32_Witness ==
    /\ Len(endpointList) = 2
    /\ Len(results) = 2
    /\ resultsCap = 2
    /\ collected = <<>>
    /\ \A i \in Workers : wpc[i] \in {"sent", "done"}

\* C33: the results channel is closed only when the WaitGroup counter is
\* zero and every worker has sent and ended; it is closed by the one close
\* of the closer goroutine, which then ends, and stays closed; and no
\* Result is added to the channel once it is closed.
C33_ClosedOnceAfterAllSends ==
    /\ [](resultsClosed =>
            /\ wg = 0
            /\ \A i \in 1..Len(endpointList) : wpc[i] = "done")
    /\ [](cpc = "done" <=> resultsClosed)
    /\ [][(~resultsClosed /\ resultsClosed') => (cpc = "close" /\ cpc' = "done")]_vars
    /\ [][resultsClosed => (resultsClosed' /\ cpc' = "done")]_vars
    /\ [][Len(results') > Len(results) => (~resultsClosed /\ ~resultsClosed')]_vars

\* C33 witness: the channel was closed with both workers' Results still in
\* it.
C33_Witness ==
    /\ resultsClosed
    /\ Len(endpointList) = 2
    /\ Len(results) = 2
    /\ \A i \in Workers : wpc[i] = "done"

\* C37: every endpoint string a worker probes contains a colon, and a
\* worker's GetDaysRemaining returns InvalidFormat only if its configured
\* entry has two or more colons.
C37_InvalidFormatNeedsTwoColons ==
    \A k \in 1..Len(endpointList) :
        wpc[k] # "none" =>
          /\ \E n \in 1..Len(wep[k]) : wep[k][n] = ":"
          /\ ret[k].Err = ErrInvalidFormat =>
                Cardinality({ n \in 1..Len(Split(env.ENDPOINTS, Comma)[k]) :
                                Split(env.ENDPOINTS, Comma)[k][n] = ":" }) >= 2

\* C37 witness: of the entries "g" and "h:1:2", the first was probed
\* successfully as "g:443" and the second was reported as InvalidFormat.
C37_Witness ==
    /\ env.ENDPOINTS = <<"g", ",", "h", ":", "1", ":", "2">>
    /\ wep[1] = <<"g", ":", "4", "4", "3">>
    /\ ret[1].Err = NoErr
    /\ ret[2].Err = ErrInvalidFormat

\* C34: while the probe goroutine has not sent, resultChan is empty, so
\* its one send finds the free slot whether or not a caller is receiving;
\* and, every dial ending, a probe that was started eventually ends, also
\* after its caller has returned Timeout.
C34_AbandonedProbeEnds ==
    /\ [](\A i \in Workers :
            (HasSelect /\ gpc[i] \in {"check", "dial", "sleep", "cert"})
            => resultChan[i] = <<>>)
    /\ \A i \in Workers : (gpc[i] # "none") ~> (gpc[i] = "done")
    /\ \A i \in Workers :
          (ret[i].Err = ErrTimeout) ~> (gpc[i] = "done" /\ Len(resultChan[i]) = 1)

\* C34 witness: the caller has returned Timeout while the probe was
\* dialling, and the probe has since sent its Result into resultChan and
\* ended.
C34_Witness ==
    \E i \in Workers :
        /\ obs[i].fired = <<"dial", "parked">>
        /\ ret[i].Err = ErrTimeout
        /\ gpc[i] = "done"
        /\ Len(resultChan[i]) = 1

\* C35: under fair scheduling of the handler, the closer, the workers and
\* the timers, and with no assumption that a probe goroutine's connection
\* attempt ever ends, the handler eventually ends; once the endpoint list
\* is split it returns with one Result collected per endpoint.  A worker
\* inside the selecting GetDaysRemaining has a context with a deadline,
\* and is never left waiting in the select once that deadline has fired.
C35_HandlerReturns ==
    /\ <>(mpc \in {"fatal", "clientFailed", "compartmentFailed", "returned"})
    /\ (mpc = "loop") ~> (mpc = "returned" /\ Len(collected) = Len(endpointList))
    /\ [](\A i \in Workers :
            wpc[i] \in {"select", "parked"} =>
                /\ ctx[i] \in {"active", "expired"}
                /\ ctx[i] = "expired" => wpc[i] # "parked")

\* C35 witness: the handler has returned with a Timeout collected for an
\* endpoint whose probe is still in its first connection attempt.
C35_Witness ==
    \E i \in Workers :
        /\ mpc = "returned"
        /\ gpc[i] = "dial"
        /\ conn[i] = "none"
        /\ wpc[i] = "done"
        /\ ret[i].Err = ErrTimeout
        /\ \E k \in 1..Len(collected) : collected[k] = ret[i]

====
